---- MODULE Spec2Model ----
(***************************************************************************)
(* A model of brew_tap_audit.py: the audit of the configured Homebrew taps *)
(* (src/brew_tap_audit.py).  Strings that the program splits, sorts or     *)
(* joins are sequences of one-character strings; the package manager and   *)
(* the network are the environment, whose replies the actions draw from    *)
(* bounded sets.                                                           *)
(***************************************************************************)
EXTENDS Integers, Sequences, FiniteSets, TLC

\* ---------------------------------------------------------------- bounds

\* Lines `brew tap` prints in one run.
MaxTaps == 1
\* Installed items of one kind in one whole run of main.
MaxRunItems == 1
\* Installed items handed to group_items_by_tap when it is checked on its own.
MaxItems == 2
\* Records in the formulae and casks arrays of one `brew info` reply, together.
MaxRecords == 2
\* Taps in one tap mapping handed to merge_formulae_and_casks on its own.
MaxMapTaps == 2
\* Characters of a tap name handed to check_tap on its own.
MaxNameLen == 3

\* ---------------------------------------------------------------- strings

\* Code points of the characters the tap names of the model use.
Ord(c) ==
  CASE c = "-" -> 45 [] c = "/" -> 47
    [] c = "a" -> 97 [] c = "b" -> 98 [] c = "c" -> 99 [] c = "d" -> 100
    [] c = "e" -> 101 [] c = "h" -> 104 [] c = "i" -> 105 [] c = "k" -> 107
    [] c = "l" -> 108 [] c = "m" -> 109 [] c = "o" -> 111 [] c = "p" -> 112
    [] c = "r" -> 114 [] c = "s" -> 115 [] c = "t" -> 116 [] c = "w" -> 119
    [] c = "x" -> 120 [] c = "y" -> 121 [] c = "z" -> 122

\* a < b for Python strings: by code point, a proper prefix first.
RECURSIVE StrLess(_, _)
StrLess(a, b) ==
  IF b = <<>> THEN FALSE
  ELSE IF a = <<>> THEN TRUE
  ELSE IF Ord(Head(a)) # Ord(Head(b)) THEN Ord(Head(a)) < Ord(Head(b))
  ELSE StrLess(Tail(a), Tail(b))

\* list.sort() on a list of strings: ascending, equal elements kept.
RECURSIVE InsertSorted(_, _)
InsertSorted(x, s) ==
  IF s = <<>> THEN <<x>>
  ELSE IF StrLess(x, Head(s)) THEN <<x>> \o s
  ELSE <<Head(s)>> \o InsertSorted(x, Tail(s))

RECURSIVE ListSort(_)
ListSort(s) ==
  IF s = <<>> THEN <<>>
  ELSE InsertSorted(s[Len(s)], ListSort(SubSeq(s, 1, Len(s) - 1)))

\* set(list): the distinct elements.
ToSet(s) == {s[i] : i \in 1..Len(s)}

\* list(set): the elements in some order, each once.
RECURSIVE SetToList(_)
SetToList(S) ==
  IF S = {} THEN <<>>
  ELSE LET x == CHOOSE y \in S : TRUE IN <<x>> \o SetToList(S \ {x})

\* str.split(sep): the segments between the separators, at least one.
RECURSIVE StrSplit(_, _)
StrSplit(s, sep) ==
  IF \A i \in 1..Len(s) : s[i] # sep THEN <<s>>
  ELSE LET i == CHOOSE k \in 1..Len(s) :
                  s[k] = sep /\ \A j \in 1..(k - 1) : s[j] # sep
       IN <<SubSeq(s, 1, i - 1)>> \o StrSplit(SubSeq(s, i + 1, Len(s)), sep)

HomebrewCore == <<"h","o","m","e","b","r","e","w","/","c","o","r","e">>
HomebrewCask == <<"h","o","m","e","b","r","e","w","/","c","a","s","k">>
AliceTools == <<"a","l","i","c","e","/","t","o","o","l","s">>
BadTap == <<"b","a","d","t","a","p">>
DeepTap == <<"x","/","y","/","z">>

\* ---------------------------------------------------------------- JSON

\* A JSON value as json.loads returns it, with its Python type: None, a str (a
\* sequence of characters), a list, or a dict (a function from its keys).
JNull == [t |-> "null"]
JStr(s) == [t |-> "string", v |-> s]
JArr(a) == [t |-> "array", v |-> a]
JObj(o) == [t |-> "object", v |-> o]

\* bool(x) of a JSON value: None, "", [] and {} are false.
Truthy(j) ==
  CASE j.t = "null" -> FALSE
    [] j.t = "string" -> j.v # <<>>
    [] j.t = "array" -> j.v # <<>>
    [] j.t = "object" -> DOMAIN j.v # {}

\* dict.get(key, default).
DictGet(d, key, default) == IF key \in DOMAIN d THEN d[key] ELSE default

\* ---------------------------------------------------------------- tap maps

\* defaultdict(list)(), and {}: no key.
EmptyMap == <<>>

\* tap_map[tap].append(item): the key is created with [] when it is missing.
MapAppend(m, tap, item) ==
  [k \in DOMAIN m \cup {tap} |->
     IF k = tap THEN Append(DictGet(m, tap, <<>>), item) ELSE m[k]]

\* ---------------------------------------------------------------- group_items_by_tap

\* The exceptions the except clause of group_items_by_tap names.
GroupCaught == {"CalledProcessError", "JSONDecodeError", "KeyError"}

\* The loop without the test of "installed": every record within the input
\* attributes its item.
RECURSIVE GroupWalkAnyRecord(_, _, _, _)
GroupWalkAnyRecord(all_info, idx, items, tap_map) ==
  IF idx >= Len(all_info) THEN [raised |-> "none", tap_map |-> tap_map]
  ELSE LET info == all_info[idx + 1] IN
       IF info.t # "object"
       THEN [raised |-> "AttributeError", tap_map |-> tap_map]
       ELSE IF idx < Len(items)
            THEN LET tap == DictGet(info.v, "tap", JStr(HomebrewCore)) IN
                 GroupWalkAnyRecord(all_info, idx + 1, items,
                                    MapAppend(tap_map, tap.v, items[idx + 1]))
            ELSE GroupWalkAnyRecord(all_info, idx + 1, items, tap_map)

\* The loop over enumerate(all_info), from index idx (0-based) on.
RECURSIVE GroupWalk(_, _, _, _)
GroupWalk(all_info, idx, items, tap_map) ==
  IF idx >= Len(all_info) THEN [raised |-> "none", tap_map |-> tap_map]
  ELSE LET info == all_info[idx + 1] IN
       IF info.t # "object"
       THEN [raised |-> "AttributeError", tap_map |-> tap_map]
       ELSE LET installed == DictGet(info.v, "installed", JArr(<<>>)) IN
            IF Truthy(installed) /\ idx < Len(items)
            THEN LET tap == DictGet(info.v, "tap", JStr(HomebrewCore)) IN
                 GroupWalk(all_info, idx + 1, items,
                           MapAppend(tap_map, tap.v, items[idx + 1]))
            ELSE GroupWalk(all_info, idx + 1, items, tap_map)

\* The body of the try block: the query (check=True), json.loads, the two
\* sections, their concatenation and the loop.  proc is what the package
\* manager answers: its exit status and, as stdout, either text that is not JSON
\* or the JSON document the text denotes.
GroupTry(items, proc) ==
  IF proc.returncode # 0
  THEN [raised |-> "CalledProcessError", tap_map |-> EmptyMap]
  ELSE IF ~proc.stdout.json
  THEN [raised |-> "JSONDecodeError", tap_map |-> EmptyMap]
  ELSE LET info_data == proc.stdout.doc IN
       IF info_data.t # "object"
       THEN [raised |-> "AttributeError", tap_map |-> EmptyMap]
       ELSE LET formulae_info == DictGet(info_data.v, "formulae", JArr(<<>>))
                casks_info == DictGet(info_data.v, "casks", JArr(<<>>))
            IN CASE formulae_info.t = "array" /\ casks_info.t = "array" ->
                      GroupWalk(formulae_info.v \o casks_info.v, 0, items, EmptyMap)
                 [] formulae_info.t = "string" /\ casks_info.t = "string" ->
                      \* str + str is a str; its characters have no .get
                      IF formulae_info.v \o casks_info.v = <<>>
                      THEN [raised |-> "none", tap_map |-> EmptyMap]
                      ELSE [raised |-> "AttributeError", tap_map |-> EmptyMap]
                 [] OTHER -> [raised |-> "TypeError", tap_map |-> EmptyMap]

\* The except clause: every item is appended to the core tap's list.
RECURSIVE GroupFallback(_, _)
GroupFallback(items, tap_map) ==
  IF items = <<>> THEN tap_map
  ELSE GroupFallback(Tail(items), MapAppend(tap_map, HomebrewCore, Head(items)))

\* group_items_by_tap without the early return for an empty input.
GroupWithoutEmptyGuard(items, proc) ==
  LET r == GroupTry(items, proc) IN
  IF r.raised \in GroupCaught
  THEN [raised |-> "none",
        tap_map |-> GroupFallback(items, r.tap_map),
        printed |-> <<[line |-> "Error grouping items", e |-> r.raised]>>,
        ran |-> TRUE]
  ELSE [raised |-> r.raised, tap_map |-> r.tap_map, printed |-> <<>>, ran |-> TRUE]

\* group_items_by_tap(items): the mapping returned (raised = "none") or the
\* exception that leaves the function, what was printed, and whether the
\* package manager was invoked.
group_items_by_tap(items, proc) ==
  IF items = <<>>
  THEN [raised |-> "none", tap_map |-> EmptyMap, printed |-> <<>>, ran |-> FALSE]
  ELSE LET r == GroupTry(items, proc) IN
       IF r.raised \in GroupCaught
       THEN [raised |-> "none",
             tap_map |-> GroupFallback(items, r.tap_map),
             printed |-> <<[line |-> "Error grouping items", e |-> r.raised]>>,
             ran |-> TRUE]
       ELSE [raised |-> r.raised, tap_map |-> r.tap_map, printed |-> <<>>,
             ran |-> TRUE]

\* ---------------------------------------------------------------- merge_formulae_and_casks

\* The merge with the casks looked up in the formula mapping.
MergeCasksFromFormulaMap(fmap, cmap) ==
  LET all_taps == DOMAIN fmap \cup DOMAIN cmap IN
  [tap \in all_taps |->
     [formulae |-> DictGet(fmap, tap, <<>>), casks |-> DictGet(fmap, tap, <<>>)]]

merge_formulae_and_casks(fmap, cmap) ==
  LET all_taps == DOMAIN fmap \cup DOMAIN cmap IN
  [tap \in all_taps |->
     [formulae |-> DictGet(fmap, tap, <<>>), casks |-> DictGet(cmap, tap, <<>>)]]

\* ---------------------------------------------------------------- get_homebrew_taps, get_installed_items

\* get_homebrew_taps with a failure swallowed: nothing is printed.
GetTapsSilentOnFailure(proc) ==
  IF proc.returncode # 0 THEN [value |-> <<>>, printed |-> <<>>]
  ELSE [value |-> ListSort(proc.lines), printed |-> <<>>]

\* get_homebrew_taps(): proc is the exit status of `brew tap` and the lines of
\* its output.
get_homebrew_taps(proc) ==
  IF proc.returncode # 0
  THEN [value |-> <<>>,
        printed |-> <<[line |-> "Error getting taps", e |-> "CalledProcessError"]>>]
  ELSE [value |-> ListSort(proc.lines), printed |-> <<>>]

\* get_installed_items(item_type): the lines of `brew list --<item_type>`.
get_installed_items(item_type, proc) ==
  IF proc.returncode # 0
  THEN [value |-> <<>>,
        printed |-> <<[line |-> "Error getting installed", kind |-> item_type,
                       e |-> "CalledProcessError"]>>]
  ELSE [value |-> proc.lines, printed |-> <<>>]

\* ---------------------------------------------------------------- check_url_reachable, infer_tap_url, check_tap

\* The status check_url_reachable compares the response's status with.
HttpOk == 200

\* A Python value check_url_reachable returns: a bool or a str.
PyBool(b) == [t |-> "bool", v |-> b]
PyStr(s) == [t |-> "str", v |-> s]

\* check_url_reachable(url): net is what the HEAD request ends in, a response
\* with its status or an exception with the lines of its text (none: str(e) is
\* empty).
check_url_reachable(url, net) ==
  IF net.kind = "response" THEN PyBool(net.status = HttpOk)
  ELSE LET error_msg == IF net.text # <<>> THEN net.text[1] ELSE "Unknown error"
       IN PyStr(<<"Error: ", error_msg>>)

GithubPrefix ==
  <<"h","t","t","p","s",":","/","/","g","i","t","h","u","b",".","c","o","m","/">>
HomebrewDash == <<"/","h","o","m","e","b","r","e","w","-">>

\* infer_tap_url splitting at the first separator only (split("/", 1)).
InferUrlSplitOnce(tap_name) ==
  IF \A i \in 1..Len(tap_name) : tap_name[i] # "/"
  THEN [raised |-> "ValueError", value |-> <<>>]
  ELSE LET i == CHOOSE k \in 1..Len(tap_name) :
                  tap_name[k] = "/" /\ \A j \in 1..(k - 1) : tap_name[j] # "/"
       IN [raised |-> "none",
           value |-> GithubPrefix \o SubSeq(tap_name, 1, i - 1) \o HomebrewDash
                       \o SubSeq(tap_name, i + 1, Len(tap_name))]

\* infer_tap_url with the two segments in the wrong order.
InferUrlSwapped(tap_name) ==
  LET parts == StrSplit(tap_name, "/") IN
  IF Len(parts) # 2 THEN [raised |-> "ValueError", value |-> <<>>]
  ELSE [raised |-> "none",
        value |-> GithubPrefix \o parts[2] \o HomebrewDash \o parts[1]]

\* infer_tap_url(tap_name): unpacking the split into user, repo raises ValueError
\* unless there are exactly two segments.
infer_tap_url(tap_name) ==
  LET parts == StrSplit(tap_name, "/") IN
  IF Len(parts) # 2 THEN [raised |-> "ValueError", value |-> <<>>]
  ELSE [raised |-> "none",
        value |-> GithubPrefix \o parts[1] \o HomebrewDash \o parts[2]]

\* The status line chosen by the result's truth (if result:) instead of its
\* identity with True.
StatusLineIfTruthy(tap, url, result) ==
  IF result.t = "str" \/ result.v
  THEN [line |-> "OK", tap |-> tap, url |-> url]
  ELSE [line |-> "ERROR", tap |-> tap, url |-> url, result |-> result]

\* The status line check_tap prints for a probe's result.
StatusLine(tap, url, result) ==
  IF result.t = "bool" /\ result.v = TRUE
  THEN [line |-> "OK", tap |-> tap, url |-> url]
  ELSE [line |-> "ERROR", tap |-> tap, url |-> url, result |-> result]

\* The lines check_tap prints after the status line.
ItemLines(tap, installed) ==
  LET formulas == DictGet(installed, "formulae", <<>>)
      casks_ == DictGet(installed, "casks", <<>>)
  IN (IF formulas # <<>> THEN <<[line |-> "Formulae", items |-> formulas]>> ELSE <<>>)
     \o (IF casks_ # <<>> THEN <<[line |-> "Casks", items |-> casks_]>> ELSE <<>>)
     \o (IF formulas = <<>> /\ casks_ = <<>>
         THEN <<[line |-> "No formulae or casks", tap |-> tap]>> ELSE <<>>)

\* check_tap(tap, installed): the exception that leaves it or "none", the lines
\* printed and the URLs probed.
check_tap(tap, installed, net) ==
  LET url == infer_tap_url(tap) IN
  IF url.raised # "none"
  THEN [raised |-> url.raised, printed |-> <<>>, probed |-> <<>>]
  ELSE LET result == check_url_reachable(url.value, net) IN
       [raised |-> "none",
        printed |-> <<StatusLine(tap, url.value, result)>> \o ItemLines(tap, installed),
        probed |-> <<url.value>>]

\* ---------------------------------------------------------------- the environment

SeqsUpTo(S, n) == UNION {[1..k -> S] : k \in 0..n}

\* Lists without a repeated element: `brew list` names an installed item once.
DistinctSeqs(S, n) ==
  {s \in SeqsUpTo(S, n) : \A i, j \in 1..Len(s) : i # j => s[i] # s[j]}

\* Tap names `brew tap` may print: a custom tap, one of the defaults again, and
\* names with no or with two separators.
TapPool == {AliceTools, HomebrewCore, BadTap, DeepTap}

\* What `brew tap` answers.
TapReplies ==
  {[returncode |-> 1, lines |-> <<>>]}
    \cup {[returncode |-> 0, lines |-> l] : l \in SeqsUpTo(TapPool, MaxTaps)}

\* Item names: of a whole run of main, and of group_items_by_tap on its own.
RunItemPool == {"vlc", "wget"}
ItemPool == {"jq", "vlc", "wget"}

\* What `brew list --formula` or `brew list --cask` answers.
ListReplies(n) ==
  {[returncode |-> 1, lines |-> <<>>]}
    \cup {[returncode |-> 0, lines |-> l] : l \in DistinctSeqs(RunItemPool, n)}

\* A key a JSON object does not have.
Absent == [t |-> "absent"]

\* The object with the given values under the two keys, a key left out when its
\* value is Absent.
Obj2(k1, v1, k2, v2) ==
  JObj([k \in (IF v1 = Absent THEN {} ELSE {k1}) \cup (IF v2 = Absent THEN {} ELSE {k2})
          |-> IF k = k1 THEN v1 ELSE v2])

\* The "installed" values of a record: no key, null (a cask not installed), the
\* installed versions; in a whole run of main, no version (a formula not
\* installed) and the installed versions.
Versions == JArr(<<JStr(<<"1">>)>>)
InstalledValues == {Absent, JNull, Versions}

TapValues == {Absent, JStr(AliceTools), JStr(HomebrewCore)}

\* The elements of the formulae and casks arrays: records, and a JSON string
\* where a record should be.
InfoRecords ==
  {JStr(<<"x">>)}
    \cup {Obj2("installed", i, "tap", t) : i \in InstalledValues, t \in TapValues}

\* The records of the replies in a whole run of main.
RunInfoRecords ==
  {JStr(<<"x">>)}
    \cup {Obj2("installed", i, "tap", t) :
            i \in {JArr(<<>>), Versions}, t \in {Absent, JStr(AliceTools)}}

\* The value under "formulae" or "casks": no key, an array of records, or null or
\* a string where the array should be.
InfoSections(recs, n) ==
  {Absent, JNull, JStr(<<"x">>)} \cup {JArr(a) : a \in SeqsUpTo(recs, n)}

SectionLen(sec) == IF sec.t = "array" THEN Len(sec.v) ELSE 0

\* What `brew info --json=v2 <items>` answers: a failure, text that is not JSON,
\* a JSON array, or an object with at most n records in its two sections.
InfoReplies(recs, n) ==
  {[returncode |-> 1, stdout |-> [json |-> FALSE]],
   [returncode |-> 0, stdout |-> [json |-> FALSE]],
   [returncode |-> 0, stdout |-> [json |-> TRUE, doc |-> JArr(<<>>)]]}
    \cup {[returncode |-> 0,
           stdout |-> [json |-> TRUE, doc |-> Obj2("formulae", f, "casks", c)]] :
            <<f, c>> \in {fc \in InfoSections(recs, n) \X InfoSections(recs, n) :
                            SectionLen(fc[1]) + SectionLen(fc[2]) <= n}}

\* What a HEAD request ends in: in a whole run of main, and for check_tap on its
\* own.
RunNetReplies ==
  {[kind |-> "response", status |-> 200],
   [kind |-> "response", status |-> 204],
   [kind |-> "exception", text |-> <<"HTTP Error 404: Not Found">>]}
NetReplies ==
  RunNetReplies
    \cup {[kind |-> "response", status |-> 202],
         [kind |-> "exception", text |-> <<"first line", "second line">>],
         [kind |-> "exception", text |-> <<>>]}

\* ---------------------------------------------------------------- main

VARIABLES
  pc,             \* where main is
  custom_taps, taps, formulae, casks, formula_map, cask_map, installed_map,
  next_tap,       \* the position in taps the for loop is at
  out,            \* the lines printed
  calls,          \* the commands run and requests made, each with how it ended
  exc,            \* the exception that ended main, or "none"
  unit            \* a function applied on its own: its arguments and result

vars == <<pc, custom_taps, taps, formulae, casks, formula_map, cask_map,
          installed_map, next_tap, out, calls, exc, unit>>

NoUnit == [fn |-> "none"]
DefaultTaps == <<HomebrewCore, HomebrewCask>>

Init ==
  /\ pc = "get_taps"
  /\ custom_taps = <<>> /\ taps = <<>> /\ formulae = <<>> /\ casks = <<>>
  /\ formula_map = EmptyMap /\ cask_map = EmptyMap /\ installed_map = EmptyMap
  /\ next_tap = 1 /\ out = <<>> /\ calls = <<>> /\ exc = "none"
  /\ unit = NoUnit

\* line 108
GetHomebrewTaps ==
  /\ pc = "get_taps"
  /\ \E proc \in TapReplies :
       LET r == get_homebrew_taps(proc) IN
       /\ custom_taps' = r.value
       /\ out' = out \o r.printed
       /\ calls' = Append(calls, [cmd |-> "tap", returncode |-> proc.returncode])
  /\ pc' = "build_taps"
  /\ UNCHANGED <<taps, formulae, casks, formula_map, cask_map, installed_map,
                 next_tap, exc, unit>>

\* lines 109-111
BuildTaps ==
  /\ pc = "build_taps"
  /\ taps' = ListSort(SetToList(ToSet(DefaultTaps \o custom_taps)))
  /\ pc' = "list_formulae"
  /\ UNCHANGED <<custom_taps, formulae, casks, formula_map, cask_map,
                 installed_map, next_tap, out, calls, exc, unit>>

\* line 112
GetFormulae ==
  /\ pc = "list_formulae"
  /\ \E proc \in ListReplies(MaxRunItems) :
       LET r == get_installed_items("formula", proc) IN
       /\ formulae' = r.value
       /\ out' = out \o r.printed
       /\ calls' = Append(calls, [cmd |-> "list", kind |-> "formula",
                                 returncode |-> proc.returncode])
  /\ pc' = "list_casks"
  /\ UNCHANGED <<custom_taps, taps, casks, formula_map, cask_map, installed_map,
                 next_tap, exc, unit>>

\* line 113
GetCasks ==
  /\ pc = "list_casks"
  /\ \E proc \in ListReplies(MaxRunItems) :
       LET r == get_installed_items("cask", proc) IN
       /\ casks' = r.value
       /\ out' = out \o r.printed
       /\ calls' = Append(calls, [cmd |-> "list", kind |-> "cask",
                                 returncode |-> proc.returncode])
  /\ pc' = "group_formulae"
  /\ UNCHANGED <<custom_taps, taps, formulae, formula_map, cask_map,
                 installed_map, next_tap, exc, unit>>

\* The replies a call of group_items_by_tap may get: none when it runs no query.
GroupReplies(items, recs, n) ==
  IF items = <<>> THEN {[returncode |-> 0, stdout |-> [json |-> FALSE]]}
  ELSE InfoReplies(recs, n)

\* line 114
GroupFormulae ==
  /\ pc = "group_formulae"
  /\ \E proc \in GroupReplies(formulae, RunInfoRecords, MaxRunItems) :
       LET r == group_items_by_tap(formulae, proc) IN
       /\ out' = out \o r.printed
       /\ calls' = IF r.ran THEN Append(calls, [cmd |-> "info", items |-> formulae,
                                               returncode |-> proc.returncode])
                   ELSE calls
       /\ IF r.raised = "none"
          THEN formula_map' = r.tap_map /\ pc' = "group_casks" /\ exc' = exc
          ELSE formula_map' = formula_map /\ pc' = "crashed" /\ exc' = r.raised
  /\ UNCHANGED <<custom_taps, taps, formulae, casks, cask_map, installed_map,
                 next_tap, unit>>

\* line 115
GroupCasks ==
  /\ pc = "group_casks"
  /\ \E proc \in GroupReplies(casks, RunInfoRecords, MaxRunItems) :
       LET r == group_items_by_tap(casks, proc) IN
       /\ out' = out \o r.printed
       /\ calls' = IF r.ran THEN Append(calls, [cmd |-> "info", items |-> casks,
                                               returncode |-> proc.returncode])
                   ELSE calls
       /\ IF r.raised = "none"
          THEN cask_map' = r.tap_map /\ pc' = "merge" /\ exc' = exc
          ELSE cask_map' = cask_map /\ pc' = "crashed" /\ exc' = r.raised
  /\ UNCHANGED <<custom_taps, taps, formulae, casks, formula_map, installed_map,
                 next_tap, unit>>

\* line 116
Merge ==
  /\ pc = "merge"
  /\ installed_map' = merge_formulae_and_casks(formula_map, cask_map)
  /\ pc' = "announce"
  /\ UNCHANGED <<custom_taps, taps, formulae, casks, formula_map, cask_map,
                 next_tap, out, calls, exc, unit>>

\* lines 117-120
Announce ==
  /\ pc = "announce"
  /\ IF taps = <<>>
     THEN out' = Append(out, [line |-> "No taps found"]) /\ pc' = "done"
     ELSE out' = Append(out, [line |-> "Found", n |-> Len(taps)]) /\ pc' = "loop"
  /\ UNCHANGED <<custom_taps, taps, formulae, casks, formula_map, cask_map,
                 installed_map, next_tap, calls, exc, unit>>

\* lines 121-122: one iteration of the for loop
CheckTap ==
  /\ pc = "loop"
  /\ next_tap <= Len(taps)
  /\ \E net \in RunNetReplies :
       LET tap == taps[next_tap]
           r == check_tap(tap, DictGet(installed_map, tap, EmptyMap), net)
       IN /\ out' = out \o r.printed
          /\ calls' = calls \o [k \in 1..Len(r.probed) |->
                                   [cmd |-> "HEAD", url |-> r.probed[k], reply |-> net]]
          /\ IF r.raised = "none"
             THEN next_tap' = next_tap + 1 /\ pc' = "loop" /\ exc' = exc
             ELSE next_tap' = next_tap /\ pc' = "crashed" /\ exc' = r.raised
  /\ UNCHANGED <<custom_taps, taps, formulae, casks, formula_map, cask_map,
                 installed_map, unit>>

\* line 121: the loop is exhausted and main returns
Return ==
  /\ pc = "loop"
  /\ next_tap > Len(taps)
  /\ pc' = "done"
  /\ UNCHANGED <<custom_taps, taps, formulae, casks, formula_map, cask_map,
                 installed_map, next_tap, out, calls, exc, unit>>

Next ==
  \/ GetHomebrewTaps \/ BuildTaps \/ GetFormulae \/ GetCasks \/ GroupFormulae
  \/ GroupCasks \/ Merge \/ Announce \/ CheckTap \/ Return

Spec == Init /\ [][Next]_vars

\* ---------------------------------------------------------------- the functions on their own

\* main is not running.
MainIdle ==
  /\ pc = "unit"
  /\ custom_taps = <<>> /\ taps = <<>> /\ formulae = <<>> /\ casks = <<>>
  /\ formula_map = EmptyMap /\ cask_map = EmptyMap /\ installed_map = EmptyMap
  /\ next_tap = 1 /\ out = <<>> /\ calls = <<>> /\ exc = "none"

mainVars == <<pc, custom_taps, taps, formulae, casks, formula_map, cask_map,
              installed_map, next_tap, out, calls, exc>>

\* group_items_by_tap(items), for every list of distinct items and every reply.
InitGroup ==
  /\ MainIdle
  /\ unit \in {[fn |-> "group_items_by_tap", state |-> "called", items |-> l] :
                 l \in DistinctSeqs(ItemPool, MaxItems)}

ApplyGroup ==
  /\ unit.fn = "group_items_by_tap" /\ unit.state = "called"
  /\ \E proc \in GroupReplies(unit.items, InfoRecords, MaxRecords) :
       unit' = [fn |-> unit.fn, state |-> "returned", items |-> unit.items,
                proc |-> proc, ret |-> group_items_by_tap(unit.items, proc)]
  /\ UNCHANGED mainVars

SpecGroup == InitGroup /\ [][ApplyGroup]_vars

\* The item lists of the tap mappings merged.
MergeLists == {<<>>, <<"wget">>, <<"vlc">>, <<"wget", "vlc">>, <<"vlc", "wget">>}
MergeTaps == {HomebrewCore, HomebrewCask, AliceTools}

\* Tap mappings: a list of items for each of at most n taps.
TapMaps(n) ==
  UNION {[K -> MergeLists] : K \in {T \in SUBSET MergeTaps : Cardinality(T) <= n}}

\* merge_formulae_and_casks(formula_map, cask_map), for every two tap mappings.
InitMerge ==
  /\ MainIdle
  /\ unit \in {[fn |-> "merge_formulae_and_casks", state |-> "called",
                formula_map |-> f, cask_map |-> c] :
                 f \in TapMaps(MaxMapTaps), c \in TapMaps(MaxMapTaps)}

ApplyMerge ==
  /\ unit.fn = "merge_formulae_and_casks" /\ unit.state = "called"
  /\ unit' = [fn |-> unit.fn, state |-> "returned",
              formula_map |-> unit.formula_map, cask_map |-> unit.cask_map,
              ret |-> merge_formulae_and_casks(unit.formula_map, unit.cask_map)]
  /\ UNCHANGED mainVars

SpecMerge == InitMerge /\ [][ApplyMerge]_vars

\* Tap names handed to check_tap: the names of a run, and every string of at most
\* MaxNameLen characters over a letter and the separator.
CheckNames == TapPool \cup {HomebrewCask} \cup SeqsUpTo({"a", "/"}, MaxNameLen)

\* What main hands check_tap as the tap's items: {} or an entry of the merged map.
CheckInstalled ==
  {EmptyMap}
    \cup {[formulae |-> f, casks |-> c] :
            f \in {<<>>, <<"wget">>, <<"wget", "jq">>}, c \in {<<>>, <<"vlc">>}}

\* check_tap(tap, installed), for every tap name, entry and outcome of the probe.
InitCheck ==
  /\ MainIdle
  /\ unit \in {[fn |-> "check_tap", state |-> "called", tap |-> t, installed |-> i] :
                 t \in CheckNames, i \in CheckInstalled}

ApplyCheck ==
  /\ unit.fn = "check_tap" /\ unit.state = "called"
  /\ \E net \in NetReplies :
       unit' = [fn |-> unit.fn, state |-> "returned", tap |-> unit.tap,
                installed |-> unit.installed, net |-> net,
                ret |-> check_tap(unit.tap, unit.installed, net)]
  /\ UNCHANGED mainVars

SpecCheck == InitCheck /\ [][ApplyCheck]_vars

\* ---------------------------------------------------------------- properties of group_items_by_tap

GroupReturned == unit.fn = "group_items_by_tap" /\ unit.state = "returned"

\* The places of a tap mapping that hold item x.
Places(m, x) ==
  {p \in UNION {{<<tap, k>> : k \in 1..Len(m[tap])} : tap \in DOMAIN m} :
     m[p[1]][p[2]] = x}

\* The reply is a JSON object whose sections, where present, are arrays of
\* objects.
ExpectedShape(doc) ==
  /\ doc.t = "object"
  /\ \A key \in DOMAIN doc.v :
       /\ doc.v[key].t = "array"
       /\ \A k \in 1..Len(doc.v[key].v) : doc.v[key].v[k].t = "object"

QueryFailed(proc) == proc.returncode # 0
QueryInvalid(proc) ==
  proc.returncode = 0 /\ (~proc.stdout.json \/ ~ExpectedShape(proc.stdout.doc))
QuerySucceeded(proc) ==
  proc.returncode = 0 /\ proc.stdout.json /\ ExpectedShape(proc.stdout.doc)

\* C1: group_items_by_tap returns a mapping that holds every input item exactly
\* once, whatever the bulk metadata query answered.
C1_EveryItemUnderExactlyOneTap ==
  (GroupReturned /\ unit.ret.raised = "none") =>
    \A k \in 1..Len(unit.items) :
      Cardinality(Places(unit.ret.tap_map, unit.items[k])) = 1

\* C2: for a non-empty input, when the query fails or its output is not valid
\* structured data of the expected shape, group_items_by_tap returns normally,
\* reports the error, and every item is listed under homebrew/core, none dropped.
C2_FailedOrInvalidQueryFallsBackToCore ==
  (GroupReturned /\ unit.items # <<>>
     /\ (QueryFailed(unit.proc) \/ QueryInvalid(unit.proc))) =>
    /\ unit.ret.raised = "none"
    /\ unit.ret.tap_map = [tap \in {HomebrewCore} |-> unit.items]
    /\ \E k \in 1..Len(unit.ret.printed) :
         unit.ret.printed[k].line = "Error grouping items"

\* The records of a reply of the expected shape: the formulae array, then the
\* casks array.
Section(doc, key) == IF key \in DOMAIN doc.v THEN doc.v[key].v ELSE <<>>
ReplyRecords(doc) == Section(doc, "formulae") \o Section(doc, "casks")

\* The record says the item is installed.
Confirms(rec) ==
  /\ "installed" \in DOMAIN rec.v
  /\ rec.v["installed"] \notin {JNull, JArr(<<>>), JStr(<<>>)}

NamedTap(rec) == IF "tap" \in DOMAIN rec.v THEN rec.v["tap"].v ELSE HomebrewCore

\* The positions of the input whose record exists, confirms the item and names
\* the tap.
AttributedTo(items, recs, tap) ==
  {i \in 1..Len(items) :
     i <= Len(recs) /\ Confirms(recs[i]) /\ NamedTap(recs[i]) = tap}

\* The items at the positions I, in input order.
RECURSIVE InInputOrder(_, _)
InInputOrder(items, I) ==
  IF I = {} THEN <<>>
  ELSE LET i == CHOOSE k \in I : \A j \in I : k <= j
       IN <<items[i]>> \o InInputOrder(items, I \ {i})

\* C10: when the query succeeds, item i is attributed exactly when record i
\* exists, lies within the input and confirms the item is installed; each tap's
\* list holds, in input order, the items whose record names it, or names no tap
\* for homebrew/core; records beyond the input attribute nothing.
C10_PositionalAttribution ==
  (GroupReturned /\ unit.items # <<>> /\ QuerySucceeded(unit.proc)) =>
    LET recs == ReplyRecords(unit.proc.stdout.doc)
        m == unit.ret.tap_map
    IN /\ unit.ret.raised = "none"
       /\ \A tap \in DOMAIN m \cup {NamedTap(recs[k]) : k \in 1..Len(recs)} :
            /\ tap \in DOMAIN m <=> AttributedTo(unit.items, recs, tap) # {}
            /\ tap \in DOMAIN m =>
                 m[tap] = InInputOrder(unit.items, AttributedTo(unit.items, recs, tap))

\* Two items, one record in each array, both confirming: the first names a tap,
\* the second none.
C10_Witness ==
  /\ GroupReturned /\ Len(unit.items) = 2 /\ QuerySucceeded(unit.proc)
  /\ LET doc == unit.proc.stdout.doc IN
       /\ Len(Section(doc, "formulae")) = 1 /\ Len(Section(doc, "casks")) = 1
       /\ Confirms(Section(doc, "formulae")[1]) /\ Confirms(Section(doc, "casks")[1])
       /\ NamedTap(Section(doc, "formulae")[1]) = AliceTools
       /\ "tap" \notin DOMAIN Section(doc, "casks")[1].v
  /\ unit.ret.tap_map = (AliceTools :> <<unit.items[1]>>) @@ (HomebrewCore :> <<unit.items[2]>>)

\* ---------------------------------------------------------------- properties of merge_formulae_and_casks

MergeReturned == unit.fn = "merge_formulae_and_casks" /\ unit.state = "returned"

\* The tap mapping of one kind inside a merged mapping.
KindOf(merged, kind) == [tap \in DOMAIN merged |-> merged[tap][kind]]

\* C4: the merged mapping's taps are the union of the two inputs' taps; each
\* tap's formulae are its list in formula_map and its casks its list in cask_map,
\* empty when the tap is missing there; no item is duplicated, lost or moved to
\* the other kind.
C4_MergeIsUnionByKind ==
  MergeReturned =>
    LET f == unit.formula_map
        c == unit.cask_map
        m == unit.ret
    IN /\ DOMAIN m = DOMAIN f \cup DOMAIN c
       /\ \A tap \in DOMAIN m :
            /\ DOMAIN m[tap] = {"formulae", "casks"}
            /\ m[tap]["formulae"] = (IF tap \in DOMAIN f THEN f[tap] ELSE <<>>)
            /\ m[tap]["casks"] = (IF tap \in DOMAIN c THEN c[tap] ELSE <<>>)
       /\ \A x \in {"wget", "vlc"} :
            /\ Cardinality(Places(KindOf(m, "formulae"), x)) = Cardinality(Places(f, x))
            /\ Cardinality(Places(KindOf(m, "casks"), x)) = Cardinality(Places(c, x))

\* One tap in both inputs, one only in each.
C4_Witness ==
  /\ MergeReturned
  /\ unit.formula_map = (HomebrewCore :> <<"wget">>) @@ (AliceTools :> <<"vlc">>)
  /\ unit.cask_map = (HomebrewCore :> <<"vlc">>) @@ (HomebrewCask :> <<"wget", "vlc">>)
  /\ unit.ret[HomebrewCore] = [formulae |-> <<"wget">>, casks |-> <<"vlc">>]
  /\ unit.ret[AliceTools] = [formulae |-> <<"vlc">>, casks |-> <<>>]
  /\ unit.ret[HomebrewCask] = [formulae |-> <<>>, casks |-> <<"wget", "vlc">>]

\* ---------------------------------------------------------------- properties of check_tap

CheckReturned == unit.fn = "check_tap" /\ unit.state = "returned"

SlashCount(name) == Cardinality({i \in 1..Len(name) : name[i] = "/"})

\* https://github.com/<owner>/homebrew-<repo>
TapUrl(owner, repo) ==
  <<"h","t","t","p","s",":","/","/","g","i","t","h","u","b",".","c","o","m","/">>
    \o owner \o <<"/","h","o","m","e","b","r","e","w","-">> \o repo

\* C9: for a tap name with exactly one "/", check_tap probes and prints
\* https://github.com/<owner>/homebrew-<repo>, owner the segment before the "/"
\* and repo the segment after it.
C9_UrlFromOwnerAndRepo ==
  (CheckReturned /\ unit.tap # <<>> /\ SlashCount(unit.tap) = 1) =>
    LET i == CHOOSE k \in 1..Len(unit.tap) : unit.tap[k] = "/"
        url == TapUrl(SubSeq(unit.tap, 1, i - 1), SubSeq(unit.tap, i + 1, Len(unit.tap)))
    IN /\ unit.ret.raised = "none"
       /\ unit.ret.probed = <<url>>
       /\ unit.ret.printed[1].line \in {"OK", "ERROR"}
       /\ unit.ret.printed[1].tap = unit.tap
       /\ unit.ret.printed[1].url = url

\* alice/tools is probed at https://github.com/alice/homebrew-tools.
C9_Witness ==
  /\ CheckReturned /\ unit.tap = AliceTools
  /\ unit.ret.probed =
       << <<"h","t","t","p","s",":","/","/","g","i","t","h","u","b",".","c","o","m","/",
            "a","l","i","c","e","/","h","o","m","e","b","r","e","w","-","t","o","o","l","s">> >>

\* C6: the probe is reachable exactly when the HEAD request completes with
\* status 200, and check_tap then prints [OK]; in every other case the probe's
\* outcome is a diagnostic string, which the [ERROR] line carries.
C6_UnreachableIsADiagnosticString ==
  (CheckReturned /\ unit.ret.raised = "none") =>
    LET status == unit.ret.printed[1] IN
    IF unit.net.kind = "response" /\ unit.net.status = 200
    THEN status.line = "OK"
    ELSE status.line = "ERROR" /\ status.result.t = "str"

\* ---------------------------------------------------------------- properties of a run of main

IsStatusLine(l) == l.line \in {"OK", "ERROR"}
IsHeadCall(c) == c.cmd = "HEAD"
IsInfoCall(c) == c.cmd = "info"

StatusLines == SelectSeq(out, IsStatusLine)
HeadCalls == SelectSeq(calls, IsHeadCall)
InfoCalls == SelectSeq(calls, IsInfoCall)
\* The taps checked so far: those of the status lines printed, in order.
CheckedTaps == [k \in 1..Len(StatusLines) |-> StatusLines[k].tap]

TapsBuilt == pc \notin {"get_taps", "build_taps", "unit"}
Announced == \E k \in 1..Len(out) : out[k].line = "Found"

\* a sorts before b: at the first position where they differ a has the smaller
\* code point, or a ends there.
LexLess(a, b) ==
  \E k \in 1..(Len(b)) :
    /\ \A j \in 1..(k - 1) : j <= Len(a) /\ a[j] = b[j]
    /\ (k > Len(a) \/ (k <= Len(a) /\ Ord(a[k]) < Ord(b[k])))

\* The lines that list the items the merged mapping holds for a tap.
Listing(tap) ==
  LET entry == IF tap \in DOMAIN installed_map THEN installed_map[tap]
               ELSE [formulae |-> <<>>, casks |-> <<>>]
  IN IF entry.formulae = <<>> /\ entry.casks = <<>>
     THEN <<[line |-> "No formulae or casks", tap |-> tap]>>
     ELSE (IF entry.formulae = <<>> THEN <<>>
           ELSE <<[line |-> "Formulae", items |-> entry.formulae]>>)
          \o (IF entry.casks = <<>> THEN <<>>
              ELSE <<[line |-> "Casks", items |-> entry.casks]>>)

\* C3: the tap list is sorted and holds each tap name once; the taps are checked
\* in that order, each once, and all of them when main returns; every checked
\* tap has one status line, [OK] exactly when its probe ended in status 200,
\* followed at once by the tap's listing or the no-items note; once checking has
\* begun only a malformed tap name, never a failed probe, stops it.
C3_TapsCheckedInOrderOnce ==
  /\ TapsBuilt =>
       /\ \A k \in 1..(Len(taps) - 1) : LexLess(taps[k], taps[k + 1])
       /\ ToSet(taps) = ToSet(custom_taps) \cup {HomebrewCore, HomebrewCask}
  /\ Len(CheckedTaps) <= Len(taps)
  /\ CheckedTaps = SubSeq(taps, 1, Len(CheckedTaps))
  /\ pc = "done" => CheckedTaps = taps
  /\ Len(HeadCalls) = Len(StatusLines)
  /\ \A k \in 1..Len(StatusLines) :
       StatusLines[k].line = "OK"
         <=> HeadCalls[k].reply = [kind |-> "response", status |-> 200]
  /\ \A j \in 1..Len(out) :
       IsStatusLine(out[j]) =>
         LET n == Len(Listing(out[j].tap)) IN
         /\ j + n <= Len(out)
         /\ SubSeq(out, j + 1, j + n) = Listing(out[j].tap)
         /\ (j + n = Len(out) \/ IsStatusLine(out[j + n + 1]))
  /\ (pc = "crashed" /\ Announced) => SlashCount(taps[next_tap]) # 1

\* The run of the specification's example: alice/tools unreachable, the two
\* default taps reachable.
C3_Witness ==
  /\ pc = "done"
  /\ taps = <<AliceTools, HomebrewCask, HomebrewCore>>
  /\ Len(StatusLines) = 3
  /\ StatusLines[1].line = "ERROR" /\ StatusLines[1].tap = AliceTools
  /\ StatusLines[2].line = "OK" /\ StatusLines[3].line = "OK"

\* C5: check_tap fails for a tap name that does not hold exactly one "/": no URL
\* is probed and no status line printed for it, and the error ends the run; no
\* status line is ever printed for such a name.
C5_MalformedTapEndsRun ==
  /\ [](/\ \A k \in 1..Len(StatusLines) : SlashCount(StatusLines[k].tap) = 1
        /\ Len(HeadCalls) = Len(StatusLines)
        /\ pc = "done" => \A k \in 1..Len(taps) : SlashCount(taps[k]) = 1)
  /\ [][(pc = "loop" /\ next_tap <= Len(taps) /\ SlashCount(taps[next_tap]) # 1)
          => (pc' = "crashed" /\ exc' = "ValueError" /\ out' = out /\ calls' = calls)]_vars

\* The two default taps are checked, then x/y/z ends the run.
C5_Witness ==
  /\ pc = "crashed" /\ exc = "ValueError"
  /\ taps = <<HomebrewCask, HomebrewCore, DeepTap>> /\ next_tap = 3
  /\ CheckedTaps = <<HomebrewCask, HomebrewCore>>
  /\ Len(HeadCalls) = 2

TapListingFailed ==
  \E k \in 1..Len(calls) : calls[k].cmd = "tap" /\ calls[k].returncode # 0

\* C7: when `brew tap` fails, the error is reported, no custom tap is returned,
\* and the run goes on with the two default taps only: no other tap is checked,
\* the check of the taps is not what ends the run, and both are checked, each
\* once, when main returns.
C7_TapListingFailureLeavesDefaults ==
  TapListingFailed =>
    /\ \E k \in 1..Len(out) : out[k].line = "Error getting taps"
    /\ custom_taps = <<>>
    /\ TapsBuilt => taps = <<HomebrewCask, HomebrewCore>>
    /\ CheckedTaps = SubSeq(<<HomebrewCask, HomebrewCore>>, 1, Len(CheckedTaps))
    /\ pc = "crashed" => exc # "ValueError"
    /\ pc = "done" => CheckedTaps = <<HomebrewCask, HomebrewCore>>

\* `brew tap` failed and main returned after checking the two default taps.
C7_Witness ==
  /\ TapListingFailed /\ pc = "done"
  /\ CheckedTaps = <<HomebrewCask, HomebrewCore>>

FormulaeGrouped == pc \in {"group_casks", "merge", "announce", "loop", "done"}
CasksGrouped == pc \in {"merge", "announce", "loop", "done"}

\* C8: for a kind with no installed item the mapping is empty and the bulk
\* metadata query is not run: every query of the run names at least one item,
\* and there are no more queries than kinds with items.
C8_NoQueryForEmptyKind ==
  /\ \A k \in 1..Len(calls) : calls[k].cmd = "info" => calls[k].items # <<>>
  /\ Len(InfoCalls) <= (IF formulae = <<>> THEN 0 ELSE 1) + (IF casks = <<>> THEN 0 ELSE 1)
  /\ (FormulaeGrouped /\ formulae = <<>>) => formula_map = EmptyMap
  /\ (CasksGrouped /\ casks = <<>>) => cask_map = EmptyMap
  /\ (CasksGrouped /\ formulae = <<>> /\ casks = <<>>) =>
       \A k \in 1..Len(out) : out[k].line # "Error grouping items"

\* No formula, one cask: one query, for the cask.
C8_Witness ==
  /\ pc = "done" /\ formulae = <<>> /\ casks # <<>>
  /\ formula_map = EmptyMap /\ cask_map # EmptyMap
  /\ Len(InfoCalls) = 1 /\ InfoCalls[1].items = casks

====
